---- MODULE Spec2Model ----
(***************************************************************************)
(* Rocket Dodge (src/js/game.js): the module state of the game, its        *)
(* lifecycle entry points (startGame, restartGame, stopGame, handleInput), *)
(* the per-frame gameLoop with its update passes, endGame with its         *)
(* confettiLoop, and the browser's animation-frame queue that drives them. *)
(*                                                                         *)
(* Lengths and velocities are integers in HALF PIXELS: the code's          *)
(* quantities are all multiples of 0.5 (gravity 0.5, obstacleSpeed 2.5,    *)
(* level * 0.5), so the scaling is exact.                                  *)
(***************************************************************************)
EXTENDS Integers, Sequences, FiniteSets, TLC

VARIABLES
    gameRunning,        \* let gameRunning
    score,              \* let score
    highScore,          \* let highScore (in memory)
    stored,             \* localStorage['rocketDodgeHighScore'], or how localStorage fails
    level,              \* let level
    frameCount,         \* let frameCount
    animationId,        \* let animationId: TRUE when it holds a request id (truthy)
    rocket,             \* const rocket: [y, velocity, hasShield, shieldTime]
    obstacles,          \* let obstacles: sequence of [x, topHeight, bottomY, passed]
    stars,              \* let stars: sequence of [x, y, collected]
    powerUps,           \* let powerUps: sequence of [x, y, collected]
    particles,          \* let particles: sequence of remaining lives
    confettiParticles,  \* let confettiParticles: sequence of batches [n, life]
    raf,                \* the browser's list of pending animation-frame callbacks
    hidden,             \* document.hidden
    gameOvers,          \* history: the ticks that ended a session, since load
    ev,                 \* history: what the last operation did (see NoEv)
    hero                \* the hero background of the site's pages (see NoHero)

vars == <<gameRunning, score, highScore, stored, level, frameCount, animationId,
          rocket, obstacles, stars, powerUps, particles, confettiParticles,
          raf, hidden, gameOvers, ev, hero>>

-----------------------------------------------------------------------------
(* Units and program constants *)

Px(n) == 2 * n                   \* n pixels in half pixels

CanvasWidthPx == 174             \* options.width handed to initGame (a bound)

canvasWidth == Px(CanvasWidthPx)
canvasHeight == Px(600)          \* config.height default

rocketX == Px(100)
rocketWidth == Px(40)
rocketHeight == Px(40)
gravity == 1                     \* 0.5 px per frame, in half pixels
rocketBoost == Px(-10)

obstacleSpeed == 5               \* 2.5 px per frame, in half pixels
obstacleGap == Px(250)
obstacleFrequency == 140
obstacleWidth == Px(80)
minHeight == Px(80)
starFrequency == 80
powerUpFrequency == 300
starSize == Px(15)
powerUpSize == Px(20)
shieldDuration == 300
levelStep == 500
levelPeriodStep == 5
passPoints == 50
starPoints == 100
boostParticleCount == 5
boostParticleLife == 30
explosionParticleCount == 15
explosionParticleLife == 40
confettiCount == 120
confettiFrameLimit == 120

-----------------------------------------------------------------------------
(* Bounds of the model *)

MaxFrames == 340      \* the first session is followed for MaxFrames ticks
InputEvery == 20      \* while a session runs, the page's events (input, start,
                      \* stop, hide) arrive only every InputEvery frames
ShortSession == 80    \* a session that follows a game over is followed for
                      \* ShortSession ticks; the confetti of a game over is
                      \* followed to its end, and a new session started after
                      \* it, only when the session ended within ShortSession ticks
MaxGameOvers == 2     \* no session is started after MaxGameOvers game overs

\* Math.random() outcomes, cut down to a few representatives of each range
TopHeights == {Px(100), Px(200), Px(320)}  \* in [minHeight, minHeight + maxHeight)
StarYs == {Px(60), Px(280)}              \* in [30, canvas.height - 30)
PowerUpYs == {Px(40), Px(280), Px(560)}     \* in [30, canvas.height - 30)
ConfettiLifetimes == {60, 120}           \* frames a confetti batch survives, in 60..120
HighScores0 == {0, 40}                   \* what localStorage holds at load

-----------------------------------------------------------------------------
(* The program state as one record, so that the passes of a frame compose *)

St ==
    [gameRunning |-> gameRunning, score |-> score, highScore |-> highScore,
     stored |-> stored, level |-> level, frameCount |-> frameCount,
     animationId |-> animationId, rocket |-> rocket, obstacles |-> obstacles,
     stars |-> stars, powerUps |-> powerUps, particles |-> particles,
     confettiParticles |-> confettiParticles, raf |-> raf, hidden |-> hidden,
     gameOvers |-> gameOvers, ev |-> ev, hero |-> hero]

Set(s) ==
    /\ gameRunning' = s.gameRunning
    /\ score' = s.score
    /\ highScore' = s.highScore
    /\ stored' = s.stored
    /\ level' = s.level
    /\ frameCount' = s.frameCount
    /\ animationId' = s.animationId
    /\ rocket' = s.rocket
    /\ obstacles' = s.obstacles
    /\ stars' = s.stars
    /\ powerUps' = s.powerUps
    /\ particles' = s.particles
    /\ confettiParticles' = s.confettiParticles
    /\ raf' = s.raf
    /\ hidden' = s.hidden
    /\ gameOvers' = s.gameOvers
    /\ ev' = s.ev
    /\ hero' = s.hero

\* What the last operation did: the operation (op), the gameLoop bodies it
\* executed past the guard (ticks) and those that returned at the guard
\* (idle); the score its tick started from (score0); the obstacles that tick
\* marked passed, the stars it collected, its calls of endGame, the
\* collisions its shield absorbed and those that found no shield (crashed),
\* whether its boundary check ended the game (oob), the spawn period it used
\* and whether it spawned an obstacle; whether the operation boosted; the
\* power-ups its tick collected (shields); whether its gameLoop was left by
\* an exception (thrown).
NoEv ==
    [op |-> "init", ticks |-> 0, idle |-> 0, score0 |-> 0, passed |-> 0,
     collected |-> 0, endGames |-> 0, absorbed |-> 0, crashed |-> 0,
     oob |-> FALSE, period |-> 0, spawned |-> FALSE, boost |-> FALSE,
     shields |-> 0, thrown |-> FALSE]

Ev(op) == [NoEv EXCEPT !.op = op]

\* The hero background of the site's pages (initCinematicBackground): whether
\* the page has a .hero element (present), what matchMedia answered for
\* prefers-reduced-motion when the background was initialized
\* (reducedMotion), window.innerWidth and innerHeight, the canvas' width and
\* height, the number of particles, whether animationId holds a request id,
\* the pending animate callbacks (cur: the request animationId names), and,
\* as history, how often the body of animate has run (frames).  The page of
\* the game has no .hero element.
NoHero ==
    [present |-> FALSE, reducedMotion |-> FALSE, innerWidth |-> 0,
     innerHeight |-> 0, width |-> 0, height |-> 0, particles |-> 0,
     animationId |-> FALSE, raf |-> <<>>, frames |-> 0]

\* The values Math.random() yields in one frame
Rnd == [top : TopHeights, starY : StarYs, powerUpY : PowerUpYs,
        life : ConfettiLifetimes]

Rep(n, x) == [i \in 1..n |-> x]

RemoveAt(q, i) == [j \in 1..(Len(q) - 1) |-> IF j < i THEN q[j] ELSE q[j + 1]]

Max(a, b) == IF a > b THEN a ELSE b
Min(a, b) == IF a < b THEN a ELSE b

-----------------------------------------------------------------------------
(* requestAnimationFrame / cancelAnimationFrame.  Request ids are compared  *)
(* only with animationId, so a pending callback carries cur: whether its id *)
(* is the one animationId holds.                                            *)

RequestGameLoop(s) ==
    [s EXCEPT !.raf = Append([i \in 1..Len(s.raf) |-> [s.raf[i] EXCEPT !.cur = FALSE]],
                             [fn |-> "gameLoop", cur |-> TRUE, confettiFrames |-> 0]),
              !.animationId = TRUE]

RequestConfettiLoop(s, n) ==
    [s EXCEPT !.raf = Append(s.raf, [fn |-> "confettiLoop", cur |-> FALSE,
                                     confettiFrames |-> n])]

\* (mutant of CancelAnimationFrame: the request is left pending)
CancelNothing(s) == s

CancelAnimationFrame(s) ==
    [s EXCEPT !.raf = SelectSeq(s.raf, LAMBDA c : ~c.cur)]

-----------------------------------------------------------------------------
(* Particles and confetti *)

createBoostParticles(s) ==
    [s EXCEPT !.particles = s.particles \o Rep(boostParticleCount, boostParticleLife)]

createExplosion(s) ==
    [s EXCEPT !.particles = s.particles \o Rep(explosionParticleCount, explosionParticleLife)]

updateParticles(s) ==
    [s EXCEPT !.particles =
        SelectSeq([i \in 1..Len(s.particles) |-> s.particles[i] - 1],
                  LAMBDA l : l > 0)]

createConfetti(s, rnd) ==
    [s EXCEPT !.confettiParticles =
        Append(s.confettiParticles, [n |-> confettiCount, life |-> rnd.life])]

updateConfetti(s) ==
    [s EXCEPT !.confettiParticles =
        SelectSeq([i \in 1..Len(s.confettiParticles) |->
                      [s.confettiParticles[i] EXCEPT !.life = @ - 1]],
                  LAMBDA c : c.life > 0)]

ConfettiTotal(q) ==
    LET RECURSIVE Sum(_)
        Sum(i) == IF i = 0 THEN 0 ELSE q[i].n + Sum(i - 1)
    IN Sum(Len(q))

-----------------------------------------------------------------------------
(* endGame, with the first, synchronous, call of its confettiLoop *)

confettiLoop(s, n) ==
    LET u == updateConfetti(s)
    IN IF n < confettiFrameLimit THEN RequestConfettiLoop(u, n + 1) ELSE u

\* What stored holds when localStorage does not work: setItem throws (the
\* quota is exceeded; getItem finds nothing), or every access throws (the
\* storage is denied to the page)
StorageFull == 0 - 1
StorageDenied == 0 - 2

\* localStorage.setItem throws
SetItemThrows(s) == s.stored \in {StorageFull, StorageDenied}

\* an exception leaves endGame after the assignment to highScore
HighScoreUpdate(s) ==
    IF s.score > s.highScore
    THEN IF SetItemThrows(s)
         THEN [s EXCEPT !.highScore = s.score, !.ev.thrown = TRUE]
         ELSE [s EXCEPT !.highScore = s.score, !.stored = s.score]
    ELSE s

endGame(s, rnd) ==
    LET a == [s EXCEPT !.gameRunning = FALSE, !.ev.endGames = @ + 1]
        b == createConfetti(a, rnd)
        c == HighScoreUpdate(b)
    IN IF c.ev.thrown THEN c ELSE confettiLoop(c, 0)

-----------------------------------------------------------------------------
(* updateRocket *)

OutOfBounds(r) == r.y + rocketHeight > canvasHeight \/ r.y < 0

\* (mutant of ShieldTimer: the flag is cleared one tick late)
ShieldTimerLate(r) ==
    IF r.hasShield
    THEN [r EXCEPT !.shieldTime = Max(0, @ - 1), !.hasShield = (r.shieldTime > 0)]
    ELSE r

ShieldTimer(r) ==
    IF r.hasShield
    THEN [r EXCEPT !.shieldTime = @ - 1, !.hasShield = (r.shieldTime - 1 > 0)]
    ELSE r

ClampRocket(r) ==
    [r EXCEPT !.y = Max(0, Min(canvasHeight - rocketHeight, r.y)), !.velocity = 0]

updateRocket(s, rnd) ==
    LET r1 == [s.rocket EXCEPT !.velocity = @ + gravity,
                               !.y = @ + s.rocket.velocity + gravity]
        r2 == ShieldTimer(r1)
        s2 == [s EXCEPT !.rocket = r2]
    IN IF OutOfBounds(r2)
       THEN IF ~r2.hasShield
            THEN endGame([s2 EXCEPT !.ev.oob = TRUE], rnd)
            ELSE [s2 EXCEPT !.rocket = ClampRocket(r2)]
       ELSE s2

-----------------------------------------------------------------------------
(* Spawning *)

\* JavaScript's a % b for a >= 0: NaN (here -1, which no remainder equals)
\* when b is 0, and the sign of b is ignored
JsMod(a, b) == IF b = 0 THEN 0 - 1 ELSE IF b < 0 THEN a % (0 - b) ELSE a % b

ObstaclePeriod(lvl) == obstacleFrequency - lvl * levelPeriodStep

SpawnsObstacle(fc, lvl) == JsMod(fc, ObstaclePeriod(lvl)) = 0

createObstacle(s, rnd) ==
    [s EXCEPT !.obstacles = Append(s.obstacles,
        [x |-> canvasWidth, topHeight |-> rnd.top, bottomY |-> rnd.top + obstacleGap,
         passed |-> FALSE])]

createStar(s, rnd) ==
    [s EXCEPT !.stars = Append(s.stars,
        [x |-> canvasWidth, y |-> rnd.starY, collected |-> FALSE])]

createPowerUp(s, rnd) ==
    [s EXCEPT !.powerUps = Append(s.powerUps,
        [x |-> canvasWidth, y |-> rnd.powerUpY, collected |-> FALSE])]

Spawn(s, rnd) ==
    LET a == IF SpawnsObstacle(s.frameCount, s.level)
             THEN [createObstacle(s, rnd) EXCEPT !.ev.spawned = TRUE] ELSE s
        b == IF a.frameCount % starFrequency = 0 THEN createStar(a, rnd) ELSE a
    IN IF b.frameCount % powerUpFrequency = 0 THEN createPowerUp(b, rnd) ELSE b

-----------------------------------------------------------------------------
(* updateObstacles, updateStars, updatePowerUps: each loop runs from the    *)
(* last element down to the first                                           *)

ScrollSpeed(lvl) == obstacleSpeed + lvl          \* 2.5 + level * 0.5 px

checkCollision(r, o) ==
    /\ rocketX < o.x + obstacleWidth
    /\ rocketX + rocketWidth > o.x
    /\ (r.y < o.topHeight \/ r.y + rocketHeight > o.bottomY)

\* Math.hypot(dx, dy) < reach, for reach >= 0
Within(r, e, reach) ==
    LET dx == rocketX + rocketWidth \div 2 - e.x
        dy == r.y + rocketHeight \div 2 - e.y
    IN dx * dx + dy * dy < reach * reach

\* (mutant of ObstacleHit: the absorbing collision leaves the shield on)
ObstacleHitKeepsShield(s, rnd) ==
    IF s.rocket.hasShield
    THEN createExplosion([s EXCEPT !.ev.absorbed = @ + 1])
    ELSE endGame([s EXCEPT !.ev.crashed = @ + 1], rnd)

ObstacleHit(s, rnd) ==
    IF s.rocket.hasShield
    THEN createExplosion([s EXCEPT !.rocket.hasShield = FALSE, !.rocket.shieldTime = 0,
                                   !.ev.absorbed = @ + 1])
    ELSE endGame([s EXCEPT !.ev.crashed = @ + 1], rnd)

\* (mutant of ObstaclePass: awards a star's points for a passed obstacle)
ObstaclePassAsStar(s, i) ==
    [s EXCEPT !.obstacles[i].passed = TRUE, !.score = @ + starPoints,
              !.ev.passed = @ + 1]

ObstaclePass(s, i) ==
    [s EXCEPT !.obstacles[i].passed = TRUE, !.score = @ + passPoints,
              !.ev.passed = @ + 1]

\* (mutant of ObstacleStep: the passed flag is not consulted)
ObstacleStepRepasses(s, i, rnd) ==
    LET a == [s EXCEPT !.obstacles[i].x = @ - ScrollSpeed(s.level)]
        o == a.obstacles[i]
        b == IF checkCollision(a.rocket, o)
             THEN ObstacleHit(a, rnd)
             ELSE a
        c == IF o.x + obstacleWidth < rocketX THEN ObstaclePass(b, i) ELSE b
    IN IF o.x + obstacleWidth < 0
       THEN [c EXCEPT !.obstacles = RemoveAt(c.obstacles, i)]
       ELSE c

ObstacleStep(s, i, rnd) ==
    LET a == [s EXCEPT !.obstacles[i].x = @ - ScrollSpeed(s.level)]
        o == a.obstacles[i]
        b == IF checkCollision(a.rocket, o)
             THEN ObstacleHit(a, rnd)
             ELSE a
        c == IF ~o.passed /\ o.x + obstacleWidth < rocketX THEN ObstaclePass(b, i) ELSE b
    IN IF b.ev.thrown
       THEN b
       ELSE IF o.x + obstacleWidth < 0
            THEN [c EXCEPT !.obstacles = RemoveAt(c.obstacles, i)]
            ELSE c

RECURSIVE ObstacleLoop(_, _, _)
ObstacleLoop(s, i, rnd) ==
    IF i = 0 \/ s.ev.thrown
    THEN s
    ELSE ObstacleLoop(ObstacleStep(s, i, rnd), i - 1, rnd)

updateObstacles(s, rnd) == ObstacleLoop(s, Len(s.obstacles), rnd)

StarCollect(s, i) ==
    createExplosion([s EXCEPT !.stars[i].collected = TRUE, !.score = @ + starPoints,
                              !.ev.collected = @ + 1])

\* (mutant of StarStep: the collected flag is not consulted)
StarStepRecollects(s, i) ==
    LET a == [s EXCEPT !.stars[i].x = @ - ScrollSpeed(s.level)]
        e == a.stars[i]
        b == IF Within(a.rocket, e, starSize + rocketWidth \div 2)
             THEN StarCollect(a, i) ELSE a
    IN IF e.x < 0 - starSize
       THEN [b EXCEPT !.stars = RemoveAt(b.stars, i)]
       ELSE b

StarStep(s, i) ==
    LET a == [s EXCEPT !.stars[i].x = @ - ScrollSpeed(s.level)]
        e == a.stars[i]
        b == IF ~e.collected /\ Within(a.rocket, e, starSize + rocketWidth \div 2)
             THEN StarCollect(a, i) ELSE a
    IN IF e.x < 0 - starSize
       THEN [b EXCEPT !.stars = RemoveAt(b.stars, i)]
       ELSE b

RECURSIVE StarLoop(_, _)
StarLoop(s, i) == IF i = 0 THEN s ELSE StarLoop(StarStep(s, i), i - 1)

updateStars(s) == StarLoop(s, Len(s.stars))

PowerUpCollect(s, i) ==
    createExplosion([s EXCEPT !.powerUps[i].collected = TRUE,
                              !.rocket.hasShield = TRUE,
                              !.rocket.shieldTime = shieldDuration,
                              !.ev.shields = @ + 1])

PowerUpStep(s, i) ==
    LET a == [s EXCEPT !.powerUps[i].x = @ - ScrollSpeed(s.level)]
        e == a.powerUps[i]
        b == IF ~e.collected /\ Within(a.rocket, e, powerUpSize + rocketWidth \div 2)
             THEN PowerUpCollect(a, i) ELSE a
    IN IF e.x < 0 - powerUpSize
       THEN [b EXCEPT !.powerUps = RemoveAt(b.powerUps, i)]
       ELSE b

RECURSIVE PowerUpLoop(_, _)
PowerUpLoop(s, i) == IF i = 0 THEN s ELSE PowerUpLoop(PowerUpStep(s, i), i - 1)

updatePowerUps(s) == PowerUpLoop(s, Len(s.powerUps))

-----------------------------------------------------------------------------
(* gameLoop *)

\* (mutant of LevelOf: a session opens one level up)
LevelOfWarmUp(sc) == IF sc < passPoints THEN 2 ELSE sc \div levelStep + 1

LevelOf(sc) == sc \div levelStep + 1

\* (mutant of gameLoopBody: a tick whose shield absorbed a collision skips
\* the stars and the power-ups)
gameLoopBodyHitSkipsRest(s, rnd) ==
    LET a == [s EXCEPT !.frameCount = @ + 1,
                       !.level = LevelOf(s.score),
                       !.ev.ticks = @ + 1,
                       !.ev.score0 = IF s.ev.ticks = 0 THEN s.score ELSE @,
                       !.ev.period = ObstaclePeriod(LevelOf(s.score))]
        b == updateRocket(a, rnd)
        c == Spawn(b, rnd)
        d == updateObstacles(c, rnd)
        f == IF d.ev.absorbed >= 1 THEN d ELSE updatePowerUps(updateStars(d))
        g == updateParticles(f)
        h == updateConfetti(g)
    IN RequestGameLoop([h EXCEPT !.score = @ + 1,
                                 !.gameOvers = IF h.gameRunning THEN @ ELSE @ + 1])

gameLoopBody(s, rnd) ==
    LET a == [s EXCEPT !.frameCount = @ + 1,
                       !.level = LevelOf(s.score),
                       !.ev.ticks = @ + 1,
                       !.ev.score0 = IF s.ev.ticks = 0 THEN s.score ELSE @,
                       !.ev.period = ObstaclePeriod(LevelOf(s.score))]
        b == updateRocket(a, rnd)
        c == Spawn(b, rnd)
        d == updateObstacles(c, rnd)
        e == updateStars(d)
        f == updatePowerUps(e)
        g == updateParticles(f)
        h == updateConfetti(g)
    IN IF b.ev.thrown
       THEN [b EXCEPT !.gameOvers = @ + 1]
       ELSE IF d.ev.thrown
            THEN [d EXCEPT !.gameOvers = @ + 1]
            ELSE RequestGameLoop([h EXCEPT !.score = @ + 1,
                                           !.gameOvers = IF h.gameRunning THEN @ ELSE @ + 1])

\* (mutant of gameLoop: the guard comes after the frame counter's increment)
gameLoopGuardLate(s, rnd) ==
    IF ~s.gameRunning \/ s.hidden
    THEN [s EXCEPT !.ev.idle = @ + 1, !.frameCount = @ + 1]
    ELSE gameLoopBody(s, rnd)

gameLoop(s, rnd) ==
    IF ~s.gameRunning \/ s.hidden
    THEN [s EXCEPT !.ev.idle = @ + 1]
    ELSE gameLoopBody(s, rnd)

-----------------------------------------------------------------------------
(* Lifecycle and input *)

\* (mutant of resetGame: the rocket's velocity is not reset)
resetGameKeepsVelocity(s) ==
    [s EXCEPT !.gameRunning = FALSE, !.score = 0, !.level = 1, !.frameCount = 0,
              !.obstacles = <<>>, !.stars = <<>>, !.powerUps = <<>>,
              !.particles = <<>>, !.confettiParticles = <<>>,
              !.rocket = [y |-> canvasHeight \div 2, velocity |-> s.rocket.velocity,
                          hasShield |-> FALSE, shieldTime |-> 0]]

resetGame(s) ==
    [s EXCEPT !.gameRunning = FALSE, !.score = 0, !.level = 1, !.frameCount = 0,
              !.obstacles = <<>>, !.stars = <<>>, !.powerUps = <<>>,
              !.particles = <<>>, !.confettiParticles = <<>>,
              !.rocket = [y |-> canvasHeight \div 2, velocity |-> 0,
                          hasShield |-> FALSE, shieldTime |-> 0]]

\* (mutant of startGame: the pending frame is not cancelled)
startGameNoCancel(s, rnd) ==
    gameLoop([resetGame(s) EXCEPT !.gameRunning = TRUE], rnd)

startGame(s, rnd) ==
    LET a == [resetGame(s) EXCEPT !.gameRunning = TRUE]
        b == IF a.animationId THEN CancelAnimationFrame(a) ELSE a
    IN gameLoop(b, rnd)

restartGame(s, rnd) == startGame(s, rnd)

\* (mutant of stopGame: stopping records the high score as a game over does)
stopGameRecordsHighScore(s) ==
    LET a == HighScoreUpdate([s EXCEPT !.gameRunning = FALSE])
    IN IF a.animationId
       THEN [CancelAnimationFrame(a) EXCEPT !.animationId = FALSE]
       ELSE a

stopGame(s) ==
    LET a == [s EXCEPT !.gameRunning = FALSE]
    IN IF a.animationId
       THEN [CancelAnimationFrame(a) EXCEPT !.animationId = FALSE]
       ELSE a

\* (mutant of ApplyBoost: the impulse is added to the velocity)
ApplyBoostAdds(s) ==
    createBoostParticles([s EXCEPT !.rocket.velocity = @ + rocketBoost,
                                   !.ev.boost = TRUE])

ApplyBoost(s) ==
    createBoostParticles([s EXCEPT !.rocket.velocity = rocketBoost,
                                   !.ev.boost = TRUE])

\* (mutant of handleInput: an input event during a session pauses it)
handleInputPauses(s, rnd) ==
    IF ~s.gameRunning THEN startGame(s, rnd) ELSE stopGame(s)

\* (mutant of handleInput: the event that starts a session also boosts)
handleInputStartBoosts(s, rnd) ==
    IF ~s.gameRunning THEN ApplyBoost(startGame(s, rnd)) ELSE ApplyBoost(s)

handleInput(s, rnd) ==
    IF ~s.gameRunning THEN startGame(s, rnd) ELSE ApplyBoost(s)

-----------------------------------------------------------------------------
(* One display frame: the browser runs the callbacks that were pending when *)
(* the frame began, in the order they were requested; what they request     *)
(* runs in the next frame.                                                   *)

RunCallback(s, c, rnd) ==
    IF c.fn = "gameLoop" THEN gameLoop(s, rnd) ELSE confettiLoop(s, c.confettiFrames)

RECURSIVE RunCallbacks(_, _, _, _)
RunCallbacks(s, q, i, rnd) ==
    IF i > Len(q) THEN s ELSE RunCallbacks(RunCallback(s, q[i], rnd), q, i + 1, rnd)

AnimationFrame(s, rnd) == RunCallbacks([s EXCEPT !.raf = <<>>], s.raf, 1, rnd)

-----------------------------------------------------------------------------
(* The state after the script has loaded and initGame has run *)

Init ==
    /\ gameRunning = FALSE
    /\ score = 0
    /\ stored \in HighScores0
    /\ highScore = stored
    /\ level = 1
    /\ frameCount = 0
    /\ animationId = FALSE
    /\ rocket = [y |-> canvasHeight \div 2, velocity |-> 0, hasShield |-> FALSE,
                 shieldTime |-> 0]
    /\ obstacles = <<>>
    /\ stars = <<>>
    /\ powerUps = <<>>
    /\ particles = <<>>
    /\ confettiParticles = <<>>
    /\ raf = <<>>
    /\ hidden = FALSE
    /\ gameOvers = 0
    /\ ev = NoEv
    /\ hero = NoHero

\* Math.random() is called in a frame only by a spawn or by createConfetti:
\* the draws that cannot be used are fixed, so that equal frames are not
\* computed once per unused draw.
Draws(s, fc) ==
    LET live == s.gameRunning /\ ~s.hidden
    IN [top : IF live /\ SpawnsObstacle(fc, LevelOf(s.score))
              THEN TopHeights ELSE {Px(100)},
        starY : IF live /\ fc % starFrequency = 0 THEN StarYs ELSE {Px(60)},
        powerUpY : IF live /\ fc % powerUpFrequency = 0 THEN PowerUpYs ELSE {Px(60)},
        life : IF live THEN ConfettiLifetimes ELSE {60}]

HasGameLoop(q) == \E i \in 1..Len(q) : q[i].fn = "gameLoop"

ConfettiLoops(q) == SelectSeq(q, LAMBDA c : c.fn = "confettiLoop")

\* The bounds on what the page does to the game (see Bounds of the model)
FrameLimit == IF gameOvers = 0 THEN MaxFrames ELSE ShortSession

EventSlot == gameRunning => frameCount % InputEvery = 1

\* an input event has been handled since the last tick
Boosted == \E i \in 1..Len(particles) : particles[i] = boostParticleLife

MayStart ==
    /\ gameOvers < MaxGameOvers
    /\ EventSlot
    /\ ~gameRunning =>
          /\ frameCount <= ShortSession
          /\ \A i \in 1..Len(raf) : raf[i].confettiFrames <= 1

Frame ==
    /\ ~hidden
    /\ raf # <<>>
    /\ IF gameRunning /\ HasGameLoop(raf)
       THEN frameCount < FrameLimit
       ELSE HasGameLoop(raf) \/ frameCount <= ShortSession
    /\ \E rnd \in Draws(St, frameCount + 1) :
          Set(AnimationFrame([St EXCEPT !.ev = Ev("frame")], rnd))

Start ==
    /\ MayStart
    /\ \E rnd \in Draws([St EXCEPT !.gameRunning = TRUE, !.score = 0], 1) :
          Set(startGame([St EXCEPT !.ev = Ev("start")], rnd))

Restart ==
    /\ MayStart
    /\ \E rnd \in Draws([St EXCEPT !.gameRunning = TRUE, !.score = 0], 1) :
          Set(restartGame([St EXCEPT !.ev = Ev("restart")], rnd))

Stop ==
    /\ EventSlot
    /\ ev.op # "stop"
    /\ Set(stopGame([St EXCEPT !.ev = Ev("stop")]))

\* click, Space or touchstart
Input ==
    /\ ~hidden
    /\ IF gameRunning THEN EventSlot /\ ~Boosted ELSE MayStart
    /\ \E rnd \in Draws([St EXCEPT !.gameRunning = TRUE, !.score = 0], 1) :
          Set(handleInput([St EXCEPT !.ev = Ev("input")], rnd))

\* visibilitychange: the handler does nothing
Hide ==
    /\ ~hidden
    /\ EventSlot
    /\ hidden' = TRUE
    /\ ev' = Ev("hide")
    /\ UNCHANGED <<gameRunning, score, highScore, stored, level, frameCount,
                   animationId, rocket, obstacles, stars, powerUps, particles,
                   confettiParticles, raf, gameOvers, hero>>

Show ==
    /\ hidden
    /\ hidden' = FALSE
    /\ ev' = Ev("show")
    /\ UNCHANGED <<gameRunning, score, highScore, stored, level, frameCount,
                   animationId, rocket, obstacles, stars, powerUps, particles,
                   confettiParticles, raf, gameOvers, hero>>

Next == Frame \/ Start \/ Restart \/ Stop \/ Input \/ Hide \/ Show

Spec == Init /\ [][Next]_vars

-----------------------------------------------------------------------------
(* Late in a long session

   Levels 27 and 28 begin at scores 13000 and 13500.  A scripted player takes
   a session there: it starts the game with an input event and from then on
   boosts whenever the rocket is falling at or below its floor, so that the
   rocket swings inside the gap of the obstacles, every one of which is drawn
   with the same top; the stars are drawn out of its way and the power-ups
   at the height of its swing.  Once
   level 28 has cleared the screen of obstacles the player flies just under
   the top edge.  From a given frame on the script ends: for LateFrames frames
   any input may arrive before any frame, and the draws are free. *)

PilotFloor == 400
PilotCeiling == 200
Level27Frame == 7270
Level28Frame == 7490
LateFrames == 12

PilotRnd == [top |-> Px(100), starY |-> Px(280), powerUpY |-> Px(180), life |-> 60]

PilotBoosts ==
    /\ gameRunning
    /\ rocket.velocity > 0
    /\ rocket.y >= (IF level >= 28 /\ obstacles = <<>> THEN PilotCeiling ELSE PilotFloor)

PilotInput(until) ==
    /\ ~hidden /\ gameOvers = 0 /\ frameCount < until
    /\ IF gameRunning THEN PilotBoosts ELSE frameCount = 0
    /\ Set(handleInput([St EXCEPT !.ev = Ev("input")], PilotRnd))

PilotFrame(until) ==
    /\ ~hidden /\ gameOvers = 0 /\ frameCount < until
    /\ gameRunning /\ ~PilotBoosts
    /\ Set(AnimationFrame([St EXCEPT !.ev = Ev("frame")], PilotRnd))

LateInput(from) ==
    /\ ~hidden /\ gameRunning
    /\ frameCount >= from /\ frameCount < from + LateFrames
    /\ ~Boosted
    /\ Set(handleInput([St EXCEPT !.ev = Ev("input")], PilotRnd))

LateFrame(from) ==
    /\ ~hidden /\ raf # <<>>
    /\ frameCount >= from
    /\ IF gameRunning THEN frameCount < from + LateFrames ELSE HasGameLoop(raf)
    /\ \E rnd \in Draws(St, frameCount + 1) :
          Set(AnimationFrame([St EXCEPT !.ev = Ev("frame")], rnd))

InitLate == Init /\ stored = 0

PilotInput27 == PilotInput(Level27Frame)
PilotFrame27 == PilotFrame(Level27Frame)
LateInput27 == LateInput(Level27Frame)
LateFrame27 == LateFrame(Level27Frame)

NextLevel27 == PilotInput27 \/ PilotFrame27 \/ LateInput27 \/ LateFrame27

SpecLevel27 == InitLate /\ [][NextLevel27]_vars

PilotInput28 == PilotInput(Level28Frame)
PilotFrame28 == PilotFrame(Level28Frame)
LateInput28 == LateInput(Level28Frame)
LateFrame28 == LateFrame(Level28Frame)

NextLevel28 == PilotInput28 \/ PilotFrame28 \/ LateInput28 \/ LateFrame28

SpecLevel28 == InitLate /\ [][NextLevel28]_vars

-----------------------------------------------------------------------------
(* Under a shield at level 2

   The scripted player, with the stars drawn above its swing, collects the
   power-ups of frames 300 and 600; the star of frame 640 and the obstacle of
   frame 650 reach the rocket together.  The script ends at ShieldFrame: for
   ShieldFrames frames any input may arrive before any frame, and the draws
   are free. *)

ShieldFrame == 645
ShieldFrames == 14

ShieldRnd == [PilotRnd EXCEPT !.starY = Px(60)]

ScriptInput(until, rnd) ==
    /\ ~hidden /\ gameOvers = 0 /\ frameCount < until
    /\ IF gameRunning THEN PilotBoosts ELSE frameCount = 0
    /\ Set(handleInput([St EXCEPT !.ev = Ev("input")], rnd))

ScriptFrame(until, rnd) ==
    /\ ~hidden /\ gameOvers = 0 /\ frameCount < until
    /\ gameRunning /\ ~PilotBoosts
    /\ Set(AnimationFrame([St EXCEPT !.ev = Ev("frame")], rnd))

FreeInput(from, len) ==
    /\ ~hidden /\ gameRunning
    /\ frameCount >= from /\ frameCount < from + len
    /\ ~Boosted
    /\ Set(handleInput([St EXCEPT !.ev = Ev("input")], PilotRnd))

FreeFrame(from, len) ==
    /\ ~hidden /\ raf # <<>>
    /\ frameCount >= from
    /\ IF gameRunning THEN frameCount < from + len ELSE HasGameLoop(raf)
    /\ \E rnd \in Draws(St, frameCount + 1) :
          Set(AnimationFrame([St EXCEPT !.ev = Ev("frame")], rnd))

ScriptInputShield == ScriptInput(ShieldFrame, ShieldRnd)
ScriptFrameShield == ScriptFrame(ShieldFrame, ShieldRnd)
FreeInputShield == FreeInput(ShieldFrame, ShieldFrames)
FreeFrameShield == FreeFrame(ShieldFrame, ShieldFrames)

NextShield == ScriptInputShield \/ ScriptFrameShield \/ FreeInputShield \/ FreeFrameShield

SpecShield == InitLate /\ [][NextShield]_vars

-----------------------------------------------------------------------------
(* A page that never receives an input event: sessions are started by
   startGame and left to the display frames *)

NextNoBoost == Start \/ Frame

SpecNoBoost == Init /\ [][NextNoBoost]_vars

-----------------------------------------------------------------------------
(* A page whose localStorage fails

   The high score is read while the script loads (let highScore =
   localStorage.getItem(..) || 0) and written by endGame.  When getItem
   throws, the script's function is left at that line: initGame is never
   defined, no listener is installed and the page has no game.  When only
   setItem throws, the script loads with highScore = 0. *)

Loaded == stored # StorageDenied

InitStorage ==
    /\ stored \in {StorageFull, StorageDenied}
    /\ gameRunning = FALSE
    /\ score = 0
    /\ highScore = 0
    /\ level = 1
    /\ frameCount = 0
    /\ animationId = FALSE
    /\ rocket = [y |-> canvasHeight \div 2, velocity |-> 0, hasShield |-> FALSE,
                 shieldTime |-> 0]
    /\ obstacles = <<>>
    /\ stars = <<>>
    /\ powerUps = <<>>
    /\ particles = <<>>
    /\ confettiParticles = <<>>
    /\ raf = <<>>
    /\ hidden = FALSE
    /\ gameOvers = 0
    /\ ev = NoEv
    /\ hero = NoHero

StorageStart == Loaded /\ Start
StorageInput == Loaded /\ Input
StorageFrame == Loaded /\ Frame

NextStorage == StorageStart \/ StorageInput \/ StorageFrame

SpecStorage == InitStorage /\ [][NextStorage]_vars

-----------------------------------------------------------------------------
(* The hero background of a page of the site *)

MaxHeroFrames == 8    \* the background is followed for MaxHeroFrames runs of animate

particleArea == 15000 \* one particle per particleArea square pixels of canvas

\* window.innerWidth and innerHeight, cut down to a few windows
WindowSizes == {[w |-> 300, h |-> 200], [w |-> 600, h |-> 400],
                [w |-> 1200, h |-> 800]}

resizeCanvas(h) == [h EXCEPT !.width = h.innerWidth, !.height = h.innerHeight]

\* the particles' positions and speeds are random and are not followed
initParticles(h) ==
    [h EXCEPT !.particles = (h.width * h.height) \div particleArea]

\* animate draws the particles and requests the next frame, unless the page
\* is hidden
animate(h, hid) ==
    IF hid THEN h
    ELSE [h EXCEPT !.frames = @ + 1,
                   !.animationId = TRUE,
                   !.raf = Append([i \in DOMAIN h.raf |->
                                      [h.raf[i] EXCEPT !.cur = FALSE]],
                                  [fn |-> "animate", cur |-> TRUE])]

startAnimation(h, hid) ==
    IF ~hid THEN animate(initParticles(resizeCanvas(h)), hid) ELSE h

\* cancelAnimationFrame(animationId); animationId keeps its value
stopAnimation(h) ==
    IF h.animationId THEN [h EXCEPT !.raf = SelectSeq(h.raf, LAMBDA c : ~c.cur)]
    ELSE h

\* the listeners are installed only when the page has a .hero element
visibilityChangeListener(h, hid) ==
    IF ~h.present THEN h
    ELSE IF hid THEN stopAnimation(h) ELSE startAnimation(h, hid)

resizeListener(h) ==
    IF ~h.present THEN h ELSE initParticles(resizeCanvas(h))

initCinematicBackground(present, prefersReducedMotion, win, hid) ==
    LET h == [NoHero EXCEPT !.innerWidth = win.w, !.innerHeight = win.h]
        g == [h EXCEPT !.present = TRUE, !.reducedMotion = prefersReducedMotion]
    IN IF ~present THEN h
       ELSE IF ~prefersReducedMotion THEN startAnimation(g, hid) ELSE g

\* the browser runs the n animate callbacks that were pending
RECURSIVE RunAnimate(_, _, _)
RunAnimate(h, n, hid) ==
    IF n = 0 THEN h ELSE RunAnimate(animate(h, hid), n - 1, hid)

HeroAnimationFrame(h, hid) ==
    RunAnimate([h EXCEPT !.raf = <<>>], Len(h.raf), hid)

InitHero ==
    /\ gameRunning = FALSE
    /\ score = 0
    /\ stored = 0
    /\ highScore = stored
    /\ level = 1
    /\ frameCount = 0
    /\ animationId = FALSE
    /\ rocket = [y |-> canvasHeight \div 2, velocity |-> 0, hasShield |-> FALSE,
                 shieldTime |-> 0]
    /\ obstacles = <<>>
    /\ stars = <<>>
    /\ powerUps = <<>>
    /\ particles = <<>>
    /\ confettiParticles = <<>>
    /\ raf = <<>>
    /\ hidden \in BOOLEAN
    /\ gameOvers = 0
    /\ ev = NoEv
    /\ \E present \in BOOLEAN, prefersReducedMotion \in BOOLEAN,
          win \in WindowSizes :
          hero = initCinematicBackground(present, prefersReducedMotion, win,
                                         hidden)

HeroStep(h, hid, op) ==
    /\ hero' = h
    /\ hidden' = hid
    /\ ev' = Ev(op)
    /\ UNCHANGED <<gameRunning, score, highScore, stored, level, frameCount,
                   animationId, rocket, obstacles, stars, powerUps, particles,
                   confettiParticles, raf, gameOvers>>

\* visibilitychange, the page having become hidden
HeroHide ==
    /\ ~hidden
    /\ HeroStep(visibilityChangeListener(hero, TRUE), TRUE, "hide")

\* visibilitychange, the page having become visible
HeroShow ==
    /\ hidden
    /\ hero.frames < MaxHeroFrames
    /\ HeroStep(visibilityChangeListener(hero, FALSE), FALSE, "show")

\* the window gets another size
HeroResize ==
    \E win \in WindowSizes :
        /\ <<win.w, win.h>> # <<hero.innerWidth, hero.innerHeight>>
        /\ HeroStep(resizeListener([hero EXCEPT !.innerWidth = win.w,
                                                !.innerHeight = win.h]),
                    hidden, "resize")

\* an animation frame of the visible page
HeroFrame ==
    /\ ~hidden
    /\ hero.raf # <<>>
    /\ hero.frames < MaxHeroFrames
    /\ HeroStep(HeroAnimationFrame(hero, hidden), hidden, "frame")

NextHero == HeroHide \/ HeroShow \/ HeroResize \/ HeroFrame

SpecHero == InitHero /\ [][NextHero]_vars

-----------------------------------------------------------------------------
(* Type invariant *)

TypeOK ==
    /\ gameRunning \in BOOLEAN
    /\ score \in Nat
    /\ highScore \in Nat
    /\ stored \in Nat
    /\ level \in Nat \ {0}
    /\ frameCount \in Nat
    /\ animationId \in BOOLEAN
    /\ rocket.y \in Int /\ rocket.velocity \in Int
    /\ rocket.hasShield \in BOOLEAN
    /\ rocket.shieldTime \in 0..shieldDuration
    /\ \A i \in 1..Len(obstacles) : obstacles[i].bottomY = obstacles[i].topHeight + obstacleGap
    /\ \A i \in 1..Len(particles) : particles[i] \in 1..explosionParticleLife
    /\ \A i \in 1..Len(raf) : raf[i].fn \in {"gameLoop", "confettiLoop"}
    /\ hidden \in BOOLEAN

-----------------------------------------------------------------------------
(* C1 *)

\* C1: every tick that gameLoop executes adds to the score exactly 1, plus 50
\* for each obstacle it marks passed, plus 100 for each star it collects; and
\* the score decreases only in an operation that calls startGame.
C1_TickScore ==
    [][/\ (ev'.op = "frame" /\ ev'.ticks = 1) =>
              score' = score + 1 + 50 * ev'.passed + 100 * ev'.collected
       /\ ev'.ticks = 1 => score' = ev'.score0 + 1 + 50 * ev'.passed + 100 * ev'.collected
       /\ score' < score =>
              \/ ev'.op \in {"start", "restart"}
              \/ ev'.op = "input" /\ ~gameRunning]_vars

\* a tick that marks an obstacle passed, in a session that has collected a star
C1_Witness == ev.ticks = 1 /\ ev.passed = 1 /\ score >= frameCount + 150

-----------------------------------------------------------------------------
(* C2 *)

\* C2: in every state between operations, level = floor(score / 500) + 1.
C2_LevelMatchesScore == level = score \div 500 + 1

-----------------------------------------------------------------------------
(* C3 *)

\* C3: the tick that ends a session leaves the high score at the maximum of
\* the high score before it (which is the high score before the session: only
\* endGame writes it) and the score once that tick has completed.
C3_HighScoreIsMax ==
    [][ev'.endGames >= 1 => highScore' = Max(highScore, score')]_vars

-----------------------------------------------------------------------------
(* C4 *)

\* C4: a tick that finds the unshielded rocket above the canvas (y < 0) ends
\* the game exactly once (one call of endGame: one confetti batch, one
\* high-score update, one confettiLoop), and the gameLoop invocation that
\* follows it changes nothing.
C4_GameOverOnce ==
    [][/\ (ev'.oob /\ rocket'.y < 0) => ev'.endGames = 1
       /\ (ev.oob /\ rocket.y < 0 /\ ev'.op = "frame") =>
              /\ ev'.ticks = 0
              /\ UNCHANGED <<gameRunning, score, level, frameCount, rocket,
                             obstacles, stars, powerUps, highScore>>]_vars

-----------------------------------------------------------------------------
(* C5 *)

\* C5: a tick in which an obstacle hits the unshielded rocket leaves running
\* false; and a frame whose gameLoop is invoked while running is false
\* executes no tick and changes neither the score, the level, the frame
\* counter, the rocket, the obstacles, the stars, the power-ups, the
\* particles, the high score nor the running flag.  (The frame also runs the
\* pending confettiLoop callbacks, which move the confetti.)
C5_NoTickWhenNotRunning ==
    [][/\ ev'.crashed >= 1 => ~gameRunning'
       /\ (~gameRunning /\ ev'.op = "frame" /\ ev'.idle >= 1) =>
              /\ ev'.ticks = 0
              /\ UNCHANGED <<gameRunning, score, level, frameCount, rocket,
                             obstacles, stars, powerUps, particles, highScore,
                             stored, animationId>>]_vars

\* gameLoop has been invoked after a collision ended the session
C5_Witness ==
    /\ ~gameRunning
    /\ ev.op = "frame" /\ ev.idle = 1
    /\ ~rocket.hasShield
    /\ \E i \in 1..Len(obstacles) : checkCollision(rocket, obstacles[i])

-----------------------------------------------------------------------------
(* C7 *)

RocketAtCenter ==
    rocket = [y |-> canvasHeight \div 2, velocity |-> 0, hasShield |-> FALSE,
              shieldTime |-> 0]

CollectionsEmpty ==
    /\ obstacles = <<>> /\ stars = <<>> /\ powerUps = <<>>
    /\ particles = <<>> /\ confettiParticles = <<>>

\* C7 (as claimed): right after start() returns, running is true, score = 0,
\* level = 1, the collections are empty and the rocket is at center height
\* with velocity 0 and no shield.
C7_StartResets ==
    ev.op \in {"start", "restart"} =>
        gameRunning /\ score = 0 /\ level = 1 /\ CollectionsEmpty /\ RocketAtCenter

\* C7 (amended): right after start() returns, running is true, level = 1, the
\* collections are empty and the rocket has no shield; if the page is hidden
\* no tick has run (score 0, frame counter 0, rocket at center with velocity
\* 0); otherwise startGame has run the first tick itself: score = 1, frame
\* counter 1, velocity 0.5 px and the rocket 0.5 px below center.  The same
\* holds of a start made by an input event (handleInput calls startGame).
C7_StartResetsThenTicks ==
    (ev.op \in {"start", "restart"} \/ (ev.op = "input" /\ ~ev.boost)) =>
        /\ gameRunning /\ level = 1 /\ CollectionsEmpty
        /\ ~rocket.hasShield /\ rocket.shieldTime = 0
        /\ IF hidden
           THEN score = 0 /\ frameCount = 0 /\ ev.ticks = 0 /\ RocketAtCenter
           ELSE /\ score = 1 /\ frameCount = 1 /\ ev.ticks = 1
                /\ rocket.velocity = 1
                /\ rocket.y = canvasHeight \div 2 + 1

\* start() from a game over, on a visible page
C7_Witness == ev.op = "start" /\ ~hidden /\ gameOvers >= 1 /\ score = 1

-----------------------------------------------------------------------------
(* C8 *)

\* C8: an input event handled while the game is running sets the rocket's
\* velocity to -10 px per frame whatever it was, and changes neither the
\* rocket's y, nor the score, nor the level.
C8_BoostSetsVelocity ==
    [][(ev'.op = "input" /\ gameRunning) =>
           /\ rocket'.velocity = 0 - 20
           /\ rocket'.y = rocket.y
           /\ score' = score
           /\ level' = level
           /\ gameRunning']_vars

\* a boost late in a session, of a rocket that was falling
C8_Witness == ev.op = "input" /\ ev.boost /\ frameCount > 100 /\ rocket.velocity = 0 - 20

-----------------------------------------------------------------------------
(* C6 *)

\* C6 (as claimed): a tick in which the shield absorbs a collision with an
\* obstacle ends with the shield consumed (hasShield false, shieldTime 0) and
\* with running still true.
C6_ShieldedCollisionSurvives ==
    ev.absorbed >= 1 =>
        ~rocket.hasShield /\ rocket.shieldTime = 0 /\ gameRunning

\* C6 (amended): in a tick in which the shield is active when updateObstacles
\* finds an obstacle overlapping the rocket, that collision consumes the
\* shield and does not end the session: the shield absorbs one collision per
\* tick; running is still true at the end of the tick unless another obstacle
\* overlaps the rocket in the same tick (that collision finds no shield and
\* ends the game); and at the end of the tick hasShield is false and
\* shieldTime is 0 unless the tick goes on to collect a power-up.
C6_ShieldAbsorbsOneCollision ==
    ev.absorbed >= 1 =>
        /\ ev.absorbed = 1
        /\ ~ev.oob
        /\ ev.crashed = 0 => gameRunning /\ ev.endGames = 0
        /\ ev.crashed >= 1 => ~gameRunning
        /\ ev.shields = 0 => ~rocket.hasShield /\ rocket.shieldTime = 0

\* the shield has absorbed a collision at level 27 and the game goes on
C6_Witness ==
    /\ ev.absorbed = 1 /\ ev.crashed = 0
    /\ gameRunning /\ ~rocket.hasShield
    /\ level = 27

-----------------------------------------------------------------------------
(* C9 *)

\* C9: at every level the period that a tick uses in frameCount % period is a
\* positive integer (140 - 5 * level clamped from below), so that the modulo
\* is never taken by zero or by a negative number.
C9_PeriodPositive == ev.ticks >= 1 => ev.period >= 1

-----------------------------------------------------------------------------
(* C10 *)

\* C10: in every state in which hasShield is true, the rocket's y lies in
\* [0, canvas height - rocket height], whether the game is running or over.
C10_ShieldedInBounds ==
    rocket.hasShield =>
        rocket.y >= 0 /\ rocket.y <= canvasHeight - rocketHeight

-----------------------------------------------------------------------------
(* C11 *)

\* the distance under which updateStars collects a star
StarReach == starSize + rocketWidth \div 2

\* star e of the state after a tick is star d of the state before it: every
\* star moves left by the tick's scroll speed and keeps its height, and no two
\* stars of a session share an x
SameStar(d, e, lvl) == d.x - ScrollSpeed(lvl) = e.x /\ d.y = e.y

\* the stars of the state after a tick that the tick has collected
NewlyCollected(before, after, lvl) ==
    {j \in 1..Len(after) :
        /\ after[j].collected
        /\ ~\E i \in 1..Len(before) :
               SameStar(before[i], after[j], lvl) /\ before[i].collected}

\* C11: every star applies its scoring effect at most once.  A tick adds to
\* the score 100 for each star it turns from not collected to collected and
\* nothing for any other star (so a collected star never scores again,
\* however long it stays within distance); a collected star stays collected;
\* and a tick leaves no star both not collected and within collection
\* distance of the rocket (the first tick that finds it there collects it).
C11_StarScoresOnce ==
    [][(ev'.op = "frame" /\ ev'.ticks = 1) =>
          /\ score' = score + 1 + passPoints * ev'.passed
                      + starPoints * Cardinality(NewlyCollected(stars, stars', level'))
          /\ \A i \in 1..Len(stars) : \A j \in 1..Len(stars') :
                (SameStar(stars[i], stars'[j], level') /\ stars[i].collected)
                    => stars'[j].collected
          /\ \A j \in 1..Len(stars') :
                ~stars'[j].collected => ~Within(rocket', stars'[j], StarReach)]_vars

\* a tick that adds nothing for a collected star that is still within distance
C11_Witness ==
    /\ ev.op = "frame" /\ ev.ticks = 1 /\ ev.collected = 0
    /\ \E i \in 1..Len(stars) :
          stars[i].collected /\ Within(rocket, stars[i], StarReach)

-----------------------------------------------------------------------------
(* C12 *)

\* obstacle e of the state after a tick is obstacle d of the state before it:
\* every obstacle moves left by the tick's scroll speed and keeps its gap, and
\* no two obstacles of a session share an x
SameObstacle(d, e, lvl) == d.x - ScrollSpeed(lvl) = e.x /\ d.topHeight = e.topHeight

\* the obstacles of the state after a tick that the tick has marked passed
NewlyPassed(before, after, lvl) ==
    {j \in 1..Len(after) :
        /\ after[j].passed
        /\ ~\E i \in 1..Len(before) :
               SameObstacle(before[i], after[j], lvl) /\ before[i].passed}

\* the obstacles of the state before a tick that the tick has pruned
Pruned(before, after, lvl) ==
    {i \in 1..Len(before) :
        ~\E j \in 1..Len(after) : SameObstacle(before[i], after[j], lvl)}

\* C12: every obstacle awards the +50 exactly once.  A tick adds to the score
\* 50 for each obstacle it turns from not passed to passed (or prunes before
\* it was ever marked) and nothing for any other obstacle; a passed obstacle
\* stays passed; a tick leaves no obstacle both not passed and with its right
\* edge left of the rocket's x (the first tick that finds it there awards
\* it); and a tick prunes exactly the obstacles whose right edge has left the
\* canvas, each of them passed.
C12_ObstacleAwardedOnce ==
    [][(ev'.op = "frame" /\ ev'.ticks = 1) =>
          /\ score' = score + 1 + starPoints * ev'.collected
                      + passPoints * Cardinality(NewlyPassed(obstacles, obstacles', level'))
                      + passPoints * Cardinality({i \in Pruned(obstacles, obstacles', level') :
                                                     ~obstacles[i].passed})
          /\ \A i \in 1..Len(obstacles) : \A j \in 1..Len(obstacles') :
                (SameObstacle(obstacles[i], obstacles'[j], level') /\ obstacles[i].passed)
                    => obstacles'[j].passed
          /\ \A j \in 1..Len(obstacles') :
                /\ obstacles'[j].passed <=> obstacles'[j].x + obstacleWidth < rocketX
                /\ obstacles'[j].x + obstacleWidth >= 0
          /\ \A i \in Pruned(obstacles, obstacles', level') :
                /\ obstacles[i].passed
                /\ obstacles[i].x - ScrollSpeed(level') + obstacleWidth < 0]_vars

\* a tick of a session whose first obstacle has been pruned, before the next
\* one is spawned
C12_Witness ==
    /\ gameRunning /\ ev.op = "frame" /\ ev.ticks = 1
    /\ frameCount > obstacleFrequency
    /\ obstacles = <<>>
    /\ score >= frameCount + passPoints

-----------------------------------------------------------------------------
(* C13 *)

-----------------------------------------------------------------------------
(* C14 *)

\* C14: stop() sets running to false and cancels the pending gameLoop frame
\* (none is pending afterwards, and animationId is cleared) without any
\* game-over effect: the score, the high score in memory and in storage, the
\* level, the frame counter, the rocket and every collection are unchanged,
\* no confetti is created and no confettiLoop is requested or cancelled; and
\* a second stop() right after it changes nothing further.
C14_StopOnlyStops ==
    [][ev'.op = "stop" =>
          /\ ~gameRunning' /\ ~animationId'
          /\ ~HasGameLoop(raf')
          /\ ConfettiLoops(raf') = ConfettiLoops(raf)
          /\ UNCHANGED <<score, highScore, stored, level, frameCount, rocket,
                         obstacles, stars, powerUps, particles,
                         confettiParticles, hidden, gameOvers>>
          /\ stopGame(St)' = St']_vars

\* stop() has ended a running session whose score beats the high score
C14_Witness ==
    /\ ev.op = "stop" /\ ~gameRunning /\ gameOvers = 0
    /\ score > highScore /\ stored = highScore
    /\ obstacles # <<>> /\ confettiParticles = <<>>

-----------------------------------------------------------------------------
(* C15 *)

\* C15: start() always reaches Running and is idempotent: whatever state it
\* was called in (not started, running, game over or stopped; page visible or
\* hidden), running is true in the state it returns in, and a second start()
\* called in that state leaves the same score, level, frame counter, rocket, collections,
\* high score and pending callbacks (the gameLoop frame and the confettiLoop
\* frames) as the first one did.
C15_StartIdempotent ==
    ev.op \in {"start", "restart"} =>
        /\ gameRunning
        /\ \A rnd \in Rnd : startGame([St EXCEPT !.ev = Ev(ev.op)], rnd) = St

\* restart() has been called during the confetti of a game over
C15_Witness ==
    /\ ev.op = "restart" /\ gameRunning /\ gameOvers >= 1
    /\ HasGameLoop(raf) /\ Len(ConfettiLoops(raf)) >= 1

-----------------------------------------------------------------------------
(* C16 *)

\* the obstacles of q that overlap rocket r
Overlapping(r, q) == {i \in 1..Len(q) : checkCollision(r, q[i])}

\* C16: a shield grants one full collision absorption.  When a tick has
\* consumed the shield on an obstacle (the rocket was shielded when it first
\* overlapped it), the session is running at the end of that tick, and no
\* later tick in which the rocket overlaps only that same obstacle, inside
\* the canvas, ends the session.
C16_AbsorbedObstacleNeverEnds ==
    [][/\ (ev'.absorbed = 1 /\ Cardinality(Overlapping(rocket', obstacles')) = 1)
              => gameRunning'
       /\ (/\ gameRunning /\ ~rocket.hasShield
           /\ ev.ticks = 1 /\ ev.absorbed = 1
           /\ ev'.op = "frame" /\ ev'.ticks = 1 /\ ~ev'.oob
           /\ \A j \in Overlapping(rocket', obstacles') :
                 \E i \in Overlapping(rocket, obstacles) :
                     SameObstacle(obstacles[i], obstacles'[j], level'))
              => gameRunning']_vars

-----------------------------------------------------------------------------
(* C17 *)

\* C17: the running flag changes from true to false only by stop() or by a
\* tick that finds the rocket out of bounds with no active shield or
\* overlapping an obstacle with no active shield; it changes from false to
\* true only by start(), restart() or an input event; and every tick that
\* finds neither leaves running true.
C17_RunningTransitions ==
    [][/\ (gameRunning /\ ~gameRunning') =>
              \/ ev'.op = "stop"
              \/ /\ ev'.op = "frame" /\ ev'.ticks = 1
                 /\ \/ /\ ev'.oob /\ OutOfBounds(rocket')
                       /\ ~rocket'.hasShield \/ ev'.shields >= 1
                    \/ /\ ev'.crashed >= 1
                       /\ Overlapping(rocket', obstacles') # {}
                       /\ ~rocket'.hasShield \/ ev'.shields >= 1
       /\ (~gameRunning /\ gameRunning') => ev'.op \in {"start", "restart", "input"}
       /\ (ev'.ticks >= 1 /\ ~ev'.oob /\ ev'.crashed = 0) => gameRunning'
       /\ (ev'.ticks >= 1 /\ ~OutOfBounds(rocket')
                          /\ Overlapping(rocket', obstacles') = {}) => gameRunning']_vars

\* an input event has started a new session during the confetti of a game over
C17_Witness ==
    /\ ev.op = "input" /\ ~ev.boost /\ gameRunning
    /\ gameOvers >= 1
    /\ \E i \in 1..Len(raf) : raf[i].fn = "confettiLoop"

-----------------------------------------------------------------------------
(* C18 *)

\* C18: whenever running is true and the page is visible, a gameLoop callback
\* is pending (so that the next display frame executes a tick): hiding the
\* page and showing it again never leaves a session without its callback.
C18_RunningHasLoop == (gameRunning /\ ~hidden) => HasGameLoop(raf)

-----------------------------------------------------------------------------
(* C19 *)

GameLoops(q) == SelectSeq(q, LAMBDA c : c.fn = "gameLoop")

\* C19: at most one gameLoop callback is pending at any time, it is the one
\* whose id animationId holds, and no operation (a display frame, start(),
\* restart() or an input event) executes more than one tick.
C19_OneGameLoop ==
    /\ Len(GameLoops(raf)) <= 1
    /\ \A i \in 1..Len(raf) : raf[i].cur <=> raf[i].fn = "gameLoop"
    /\ HasGameLoop(raf) => animationId
    /\ ev.ticks + ev.idle <= 1

\* a display frame has run one tick of a new session and the confettiLoop of
\* the game over before it
C19_Witness ==
    /\ ev.op = "frame" /\ ev.ticks = 1 /\ gameRunning
    /\ frameCount > InputEvery
    /\ Len(GameLoops(raf)) = 1
    /\ Len(ConfettiLoops(raf)) = 1

-----------------------------------------------------------------------------
(* C20 *)

\* C20: an input event received while the game is not running starts a new
\* session (running true, level 1, collections empty, rocket unshielded, at
\* most the first tick executed) and applies no boost: the velocity is not
\* the boost impulse and no boost particle exists; an input event received
\* while the game is running sets the velocity to the boost impulse, emits
\* the boost particles and changes nothing else: it never resets the session.
C20_StartOrBoost ==
    [][ev'.op = "input" =>
          IF ~gameRunning
          THEN /\ gameRunning' /\ ~ev'.boost
               /\ level' = 1 /\ score' = ev'.ticks /\ frameCount' = ev'.ticks
               /\ ev'.ticks <= 1
               /\ obstacles' = <<>> /\ stars' = <<>> /\ powerUps' = <<>>
               /\ particles' = <<>> /\ confettiParticles' = <<>>
               /\ rocket' = [y |-> canvasHeight \div 2 + ev'.ticks,
                             velocity |-> ev'.ticks,
                             hasShield |-> FALSE, shieldTime |-> 0]
          ELSE /\ gameRunning' /\ ev'.boost /\ ev'.ticks = 0
               /\ rocket' = [rocket EXCEPT !.velocity = rocketBoost]
               /\ particles' = particles \o Rep(boostParticleCount, boostParticleLife)
               /\ UNCHANGED <<score, highScore, stored, level, frameCount,
                              animationId, obstacles, stars, powerUps,
                              confettiParticles, raf, hidden, gameOvers>>]_vars

\* an input event has started a session after a game over that set the high
\* score
C20_Witness ==
    /\ ev.op = "input" /\ ~ev.boost /\ gameRunning
    /\ gameOvers = 1 /\ highScore > 40
    /\ score = 1 /\ particles = <<>>

-----------------------------------------------------------------------------
(* C21 *)

\* the distance under which updatePowerUps collects a power-up
PowerUpReach == powerUpSize + rocketWidth \div 2

\* C21: all hits detected in one tick apply in that tick.  At the end of a
\* tick in which the shield has absorbed an obstacle collision, no star and
\* no power-up is left both not collected and within collection distance of
\* the rocket; the score has the 100 of every star the tick collected (with
\* the tick's 1 and the 50 of every obstacle it passed); and a power-up the
\* tick collected has granted its shield.
C21_AllHitsApply ==
    (ev.ticks = 1 /\ ev.absorbed >= 1) =>
        /\ \A i \in 1..Len(stars) :
              ~stars[i].collected => ~Within(rocket, stars[i], StarReach)
        /\ \A i \in 1..Len(powerUps) :
              ~powerUps[i].collected => ~Within(rocket, powerUps[i], PowerUpReach)
        /\ score = ev.score0 + 1 + passPoints * ev.passed + starPoints * ev.collected
        /\ ev.shields >= 1 => rocket.hasShield /\ rocket.shieldTime = shieldDuration

\* a tick in which the shield absorbs a collision and a star is collected
C21_Witness ==
    /\ ev.ticks = 1 /\ ev.absorbed = 1 /\ ev.collected = 1
    /\ \E i \in 1..Len(stars) :
          stars[i].collected /\ Within(rocket, stars[i], StarReach)

-----------------------------------------------------------------------------
(* C22 *)

\* C22: persistence failures are non-fatal.  On a page whose localStorage
\* throws, the game has loaded; a tick that ends the session completes its
\* game-over transition (endGame runs to its end: the in-memory high score
\* is at least the score the tick started from, the confettiLoop is under
\* way, and the tick itself completes with its + 1 and its requested frame);
\* and a start() or an input event after it begins a session with its
\* gameLoop callback pending.
C22_StorageFailureNonFatal ==
    /\ Loaded
    /\ ev.endGames >= 1 =>
          /\ ~ev.thrown
          /\ highScore >= ev.score0
          /\ ConfettiLoops(raf) # <<>>
          /\ score >= ev.score0 + 1
          /\ HasGameLoop(raf)
    /\ (ev.op \in {"start", "input"} /\ ~ev.boost /\ ~hidden) =>
          gameRunning /\ HasGameLoop(raf) /\ score = 1

-----------------------------------------------------------------------------
(* C23 *)

\* C23: a star that is collected at the end of one tick is no longer a member
\* of the stars collection at the end of the next tick, wherever it is on
\* the screen.
C23_CollectedStarRemoved ==
    [][(ev'.op = "frame" /\ ev'.ticks = 1) =>
          \A i \in 1..Len(stars) :
              stars[i].collected =>
                  ~\E j \in 1..Len(stars') : SameStar(stars[i], stars'[j], level')]_vars

-----------------------------------------------------------------------------
(* C24 *)

\* C24: within a session the level never decreases from one tick to the
\* next: a tick run by a display frame continues the session of the tick
\* before it, raises the score and leaves the level at least what it was.
C24_LevelMonotone ==
    [][(ev'.op = "frame" /\ ev'.ticks = 1) =>
          /\ level' >= level
          /\ score' > score
          /\ frameCount' = frameCount + 1]_vars

\* a tick at level 2, just after the score has passed 500
C24_Witness ==
    /\ ev.op = "frame" /\ ev.ticks = 1 /\ level = 2
    /\ ev.score0 - passPoints - starPoints - 1 < levelStep

-----------------------------------------------------------------------------
(* C25 *)

\* C25: after every operation (every tick, every start or reset) the shield
\* flag and the shield timer agree: hasShield is true if and only if
\* 0 < shieldTime <= 300; and every tick that finds the shield on and
\* collects no power-up leaves the timer lower than it found it, so that a
\* shield collected at tick t is off by tick t + 300 unless another power-up
\* is collected in between.
C25_ShieldFlagMatchesTimer ==
    [][/\ rocket'.hasShield <=>
              (0 < rocket'.shieldTime /\ rocket'.shieldTime <= shieldDuration)
       /\ (ev'.ticks = 1 /\ ev'.shields = 0 /\ rocket.hasShield) =>
              /\ rocket'.shieldTime < rocket.shieldTime
              /\ rocket'.shieldTime \in {0, rocket.shieldTime - 1}
       /\ (ev'.ticks = 1 /\ ev'.shields >= 1) => rocket'.shieldTime = shieldDuration
       /\ (ev'.ticks = 1 /\ ev'.shields = 0 /\ ~rocket.hasShield) => ~rocket'.hasShield]_vars

\* the last tick of a shield that runs out: the timer is at 1, 299 ticks
\* after the power-up was collected
C25_Witness ==
    /\ gameRunning /\ ev.op = "frame" /\ ev.ticks = 1
    /\ rocket.hasShield /\ rocket.shieldTime = 1

-----------------------------------------------------------------------------
(* C26 *)

\* C26: at most one animation callback chain drives the canvas: never are two
\* confettiLoop callbacks pending at once, and no confettiLoop is pending
\* while a session is running.
C26_OneAnimationChain ==
    /\ Len(ConfettiLoops(raf)) <= 1
    /\ gameRunning => ConfettiLoops(raf) = <<>>

-----------------------------------------------------------------------------
(* C27 *)

\* C27: when prefers-reduced-motion was on as the hero background was
\* initialized, the body of animate has never run and no animate callback is
\* pending, whatever visibilitychange and resize events the page has received.
C27_ReducedMotionNeverAnimates ==
    (hero.present /\ hero.reducedMotion) =>
        (hero.frames = 0 /\ hero.raf = <<>>)

====
